---- MODULE Spec2Model ----
(***************************************************************************)
(* jSketch (src/jsketch.js) and the Memento plugin for Sketchable          *)
(* (src/src/sketchable.memento.js).                                        *)
(*                                                                         *)
(* JavaScript values are modelled as follows.  A number is an integer, a   *)
(* string a string, an array a sequence, an object a record (or a function *)
(* over its own keys when the keys vary), undefined a missing key or an    *)
(* empty sequence.  A loading snapshot refers to its state object by       *)
(* reference: to an entry of the history, to the object the caller holds,  *)
(* or to an object that nothing else can reach any more.  The canvas       *)
(* bitmap is the set of painted pixels.                                    *)
(***************************************************************************)
EXTENDS Integers, Sequences, FiniteSets, TLC

\* ---- bounds of the model ----
MaxStack   == 3   \* history entries
MaxPending == 2   \* snapshot images still loading
MaxStrokes == 1   \* strokes in data.strokes
MaxCalls   == 1   \* abstract calls logged after construction
MaxAsync   == 1   \* drawImage images loading at once
MaxStyleCalls == 3 \* abstract calls logged after construction, style operations

VARIABLES
  stack,      \* MementoCanvas: var stack
  stpos,      \* MementoCanvas: var stpos (0-based, -1 when empty)
  pending,    \* snapshot images whose onload has not fired, in request order
  canvas,     \* elem: the live bitmap
  strokes,    \* data.strokes
  callStack,  \* data.sketch.callStack
  data,       \* data.sketch.data (drawing options)
  context,    \* data.sketch.context style properties
  async,      \* jSketch.drawImage images still loading
  user,       \* the state object the caller holds: <<>> or <<object>>
  lastOp,     \* the operation that produced this state
  pair,       \* bookkeeping: an undo/redo pair in progress
  burst,      \* bookkeeping: only undo/redo/restore() and loads since pending was empty
  sinceReset  \* bookkeeping: no entry appended since the last reset

vars == <<stack, stpos, pending, canvas, strokes, callStack, data,
          context, async, user, lastOp, pair, burst, sinceReset>>

\* ======================= jSketch (src/jsketch.js) =======================

StyleProps == <<"fillStyle", "strokeStyle", "lineWidth", "lineCap", "lineJoin", "miterLimit">>
StyleSet   == {StyleProps[i] : i \in 1..Len(StyleProps)}
NumProps   == {"lineWidth", "miterLimit"}

\* JavaScript truthiness of a style value: 0 and '' are falsy.
Truthy(p, v) == IF p \in NumProps THEN v # 0 ELSE v # ""

\* The style state of a fresh 2D context (HTML canvas defaults).
FreshContext ==
  [fillStyle |-> "#000", strokeStyle |-> "#000", lineWidth |-> 1,
   lineCap |-> "butt", lineJoin |-> "miter", miterLimit |-> 10]

\* setDefaults' fallback values.
Defaults ==
  [fillStyle |-> "#F00", strokeStyle |-> "#F0F", lineWidth |-> 2,
   lineCap |-> "round", lineJoin |-> "round", miterLimit |-> 10]

PropertyCall(p, v) == [property |-> p, value |-> v]
MethodCall(m, a)   == [method |-> m, args |-> a]
BareCall(m)        == [method |-> m]

\* A jSketch instance is [data, context, callStack]; every method returns it.

\* saveGraphics(options): options is a function over the keys that are defined.
RECURSIVE saveGraphicsFrom(_, _, _)
saveGraphicsFrom(sk, options, i) ==
  IF i > Len(StyleProps) THEN sk
  ELSE LET opt == StyleProps[i] IN
       IF opt \in DOMAIN options
          /\ Truthy(opt, options[opt])
          /\ (opt \notin DOMAIN sk.data \/ options[opt] # sk.data[opt])
       THEN saveGraphicsFrom(
              [sk EXCEPT !.data = (opt :> options[opt]) @@ sk.data,
                         !.callStack = Append(@, PropertyCall(opt, options[opt]))],
              options, i + 1)
       ELSE saveGraphicsFrom(sk, options, i + 1)

saveGraphics(sk, options) == saveGraphicsFrom(sk, options, 1)

NoOptions == [p \in {} |-> 0]

restoreGraphics(sk) ==
  [sk EXCEPT !.context = [p \in StyleSet |->
      IF p \in DOMAIN sk.data THEN sk.data[p] ELSE sk.context[p]]]

setDefaults(sk) ==
  LET options == [p \in StyleSet |->
          IF p \in DOMAIN sk.data /\ Truthy(p, sk.data[p]) THEN sk.data[p] ELSE Defaults[p]]
      pushed == [i \in 1..Len(StyleProps) |-> PropertyCall(StyleProps[i], options[StyleProps[i]])]
  IN restoreGraphics(saveGraphics([sk EXCEPT !.callStack = @ \o pushed], options))

\* new jSketch(elem, options)
jSketch(options) ==
  setDefaults([data |-> options, context |-> FreshContext, callStack |-> <<>>])

beginFill(sk, color) ==
  LET s1 == saveGraphics(sk, NoOptions) IN
  [s1 EXCEPT !.context = [@ EXCEPT !["fillStyle"] = color],
             !.callStack = Append(@, PropertyCall("fillStyle", color))]

endFill(sk) == restoreGraphics(sk)

StageRect == <<0, 0, 1, 1>>

background(sk, color) ==
  LET s1 == endFill(beginFill(sk, color)) IN
  [s1 EXCEPT !.callStack = @ \o <<PropertyCall("fillStyle", color),
                                   MethodCall("fillRect", StageRect)>>]

lineStyle(sk, options) == restoreGraphics(saveGraphics(sk, options))

beginPath(sk) ==
  LET s1 == saveGraphics(sk, NoOptions) IN
  [s1 EXCEPT !.callStack = Append(@, BareCall("beginPath"))]

closePath(sk) ==
  restoreGraphics([sk EXCEPT !.callStack = Append(@, BareCall("closePath"))])


clear(sk) == [sk EXCEPT !.callStack = Append(@, BareCall("clear"))]

fillRect(sk, x, y, w, h) ==
  [sk EXCEPT !.callStack = Append(@, MethodCall("fillRect", <<x, y, w, h>>))]

\* The HTMLImageElement that drawImage creates, and the object JSON makes of it.
Img(src)    == [src |-> src]
EmptyObject == [keys |-> {}]

\* img.onload of drawImage
drawImageLoaded(sk, src) ==
  [sk EXCEPT !.callStack = @ \o <<MethodCall("drawImage", <<Img(src), 0, 0>>),
                                   BareCall("removeAsync")>>]

\* ============ MementoCanvas (src/src/sketchable.memento.js) ============

Undefined == -1   \* stands for a missing event or a missing identifier
NoEvent   == [identifier |-> Undefined]
\* A mouse event (no identifier), the first touch and a second touch.
Events    == {[identifier |-> i] : i \in {Undefined, 0, 1}}

Pixels  == {1}
\* The pixels that the picture a.png paints.
Picture == {1}
Bitmaps == SUBSET Pixels

\* elem.toDataURL() and the decoding of the data URL by Image (PNG is lossless).
toDataURL(bitmap) == <<"data:image/png", bitmap>>
Decode(image)     == image[2]

\* JSON.parse(JSON.stringify(v)): numbers, strings and arrays survive; an
\* HTMLImageElement has no own enumerable property and becomes {}.  The only
\* logged call that holds one is drawImage (first argument).
JSONCall(c) ==
  IF "method" \in DOMAIN c /\ "args" \in DOMAIN c
  THEN IF c.method = "drawImage"
       THEN [c EXCEPT !.args = <<EmptyObject>> \o Tail(c.args)]
       ELSE c
  ELSE c

JSONCopy(obj) ==
  IF "callStack" \in DOMAIN obj
  THEN [image |-> obj.image, strokes |-> obj.strokes,
        callStack |-> [i \in 1..Len(obj.callStack) |-> JSONCall(obj.callStack[i])]]
  ELSE [image |-> obj.image, strokes |-> obj.strokes]

\* What a snapshot of the live canvas bm, st, cs holds (save, lines 119-123).
Snapshot(bm, st, cs) == [image |-> toDataURL(bm), strokes |-> st, callStack |-> cs]

\* Variant: `ev.identifier >= 0`, which takes the first touch for a secondary one.
IsSecondaryTouch_AnyTouch(ev) == ev.identifier >= 0

\* `ev && ev.identifier > 0`: false for a missing event and for an event
\* without identifier (undefined > 0 is false).
IsSecondaryTouch(ev) == ev.identifier > 0

\* save(ev) applied to the history <<stk, pos>> and the live canvas bm, st, cs.
\* (The code's stack[stpos] is stk[pos + 1]: sequences start at 1.)
save(stk, pos, ev, bm, st, cs) ==
  IF IsSecondaryTouch(ev)
  THEN [stack |-> [stk EXCEPT ![pos + 1].strokes = st], stpos |-> pos]
  ELSE [stack |-> Append(stk, Snapshot(bm, st, cs)), stpos |-> pos + 1]

\* Variant: reset() that forgets to empty the history.
reset_KeepHistory(bm, st, cs) == save(stack, stpos, NoEvent, bm, st, cs)

\* reset(): empty the history, then save().
reset(bm, st, cs) == save(<<>>, -1, NoEvent, bm, st, cs)

\* ---- references held by the loading snapshots ----
\* ref > 0: the entry stack[ref - 1] of the code (stack[ref] here); ref = 0: the object the caller holds;
\* ref = -1: an object only this load can reach, kept in obj.
Deref(ld) ==
  IF ld.ref > 0 THEN stack[ld.ref]
  ELSE IF ld.ref = 0 THEN user[1]
  ELSE ld.obj[1]

\* The loads after `stack = []`: the old entries stay alive in their closures.
DetachEntries(pend) ==
  [i \in 1..Len(pend) |->
     IF pend[i].ref > 0 THEN [pend[i] EXCEPT !.ref = -1, !.obj = <<stack[pend[i].ref]>>]
     ELSE pend[i]]

\* The loads after the caller lets go of its state object.
DetachUser(pend) ==
  [i \in 1..Len(pend) |->
     IF pend[i].ref = 0 THEN [pend[i] EXCEPT !.ref = -1, !.obj = <<user[1]>>]
     ELSE pend[i]]

\* restore(state): a new Image with src = state.image whose onload will draw(state).
restore(pend, image, ref) ==
  Append(pend, [snapshot |-> image, ref |-> ref, obj |-> <<>>])

\* Variants: guards that are off by one.
CanUndo_OffByOne(pos)      == pos > 1
CanRedo_OffByOne(pos, stk) == pos < Len(stk) - 2

\* undo / redo guards
CanUndo(pos)      == pos > 0
CanRedo(pos, stk) == pos < Len(stk) - 1

\* Variant: draw that does not update data.strokes.
draw_KeepStrokes(snapshot, state, cs) ==
  [canvas  |-> Decode(snapshot),
   strokes |-> strokes,
   callStack |-> IF "callStack" \in DOMAIN state THEN state.callStack
                 ELSE Append(cs, BareCall("clear")),
   raised  |-> "callStack" \notin DOMAIN state]

\* draw(snapshot, state), lines 38-51.  state.callStack.slice() raises a
\* TypeError when the state has no callStack; the statements before it have
\* taken effect by then.
draw(snapshot, state, cs) ==
  [canvas  |-> Decode(snapshot),
   strokes |-> state.strokes,
   callStack |-> IF "callStack" \in DOMAIN state THEN state.callStack
                 ELSE Append(cs, BareCall("clear")),
   raised  |-> "callStack" \notin DOMAIN state]

\* state(): a JSON copy of stack[stpos]
state(stk, pos) == JSONCopy(stk[pos + 1])

\* ---- bookkeeping ----
NoPair       == [phase |-> 0, first |-> "", pos |-> -1, stack |-> <<>>]
StartPair(f) == [phase |-> 1, first |-> f, pos |-> stpos, stack |-> stack]

\* The drawing options a sketch is constructed with.
SketchOptions ==
  { NoOptions, [fillStyle |-> "#00F", lineWidth |-> 3] }
\* The options of the sketch that the memento is attached to.
HostOptions == NoOptions

MaxLog == 2 * Len(StyleProps) + MaxCalls

Sketch == [data |-> data, context |-> context, callStack |-> callStack]

InitWith(options) ==
  LET sk == jSketch(options)
      h0 == save(<<>>, -1, NoEvent, {}, <<>>, sk.callStack)
  IN /\ data = sk.data
     /\ context = sk.context
     /\ callStack = sk.callStack
     /\ canvas = {}
     /\ strokes = <<>>
     /\ async = 0
     /\ stack = h0.stack
     /\ stpos = h0.stpos
     /\ pending = <<>>
     /\ user = <<>>
     /\ lastOp = "init"
     /\ pair = NoPair
     /\ burst = FALSE
     /\ sinceReset = FALSE

Init == InitWith(HostOptions)

\* ---- the host widget draws ----

\* The host paints pixel p through the sketch (jSketch.fillRect).
Paint(p) ==
  /\ Len(callStack) < MaxLog
  /\ canvas' = canvas \cup {p}
  /\ callStack' = fillRect(Sketch, p, p, 1, 1).callStack
  /\ lastOp' = "host"
  /\ pair' = NoPair
  /\ burst' = FALSE
  /\ UNCHANGED <<stack, stpos, pending, strokes, data, context, async, user, sinceReset>>

\* The host widget (Sketchable, not part of these sources) records a finished
\* stroke in data.strokes.
HostStroke(s) ==
  /\ Len(strokes) < MaxStrokes
  /\ strokes' = Append(strokes, s)
  /\ lastOp' = "host"
  /\ pair' = NoPair
  /\ burst' = FALSE
  /\ UNCHANGED <<stack, stpos, pending, canvas, callStack, data, context, async, user, sinceReset>>

\* jSketch.drawImage(src): the image loads asynchronously.
DrawImage ==
  /\ async < MaxAsync
  /\ Len(callStack) < MaxLog
  /\ async' = async + 1
  /\ callStack' = Append(callStack, BareCall("addAsync"))
  /\ lastOp' = "host"
  /\ pair' = NoPair
  /\ burst' = FALSE
  /\ UNCHANGED <<stack, stpos, pending, canvas, strokes, data, context, user, sinceReset>>

ImageLoaded ==
  /\ async > 0
  /\ async' = async - 1
  /\ canvas' = canvas \cup Picture
  /\ callStack' = drawImageLoaded(Sketch, "a.png").callStack
  /\ lastOp' = "host"
  /\ pair' = NoPair
  /\ burst' = FALSE
  /\ UNCHANGED <<stack, stpos, pending, strokes, data, context, user, sinceReset>>

ImageError ==
  /\ async > 0
  /\ async' = async - 1
  /\ callStack' = Append(callStack, BareCall("removeAsync"))
  /\ lastOp' = "host"
  /\ pair' = NoPair
  /\ burst' = FALSE
  /\ UNCHANGED <<stack, stpos, pending, canvas, strokes, data, context, user, sinceReset>>

\* ---- MementoCanvas operations ----

\* save(ev) on the live state, as every caller below uses it.
SaveLive(ev) ==
  LET r == save(stack, stpos, ev, canvas, strokes, callStack) IN
  /\ IsSecondaryTouch(ev) \/ Len(stack) < MaxStack
  /\ stack' = r.stack
  /\ stpos' = r.stpos
  /\ sinceReset' = (sinceReset /\ IsSecondaryTouch(ev))
  /\ lastOp' = IF IsSecondaryTouch(ev) THEN "touch" ELSE "save"
  /\ pair' = NoPair
  /\ burst' = FALSE
  /\ UNCHANGED <<pending, canvas, strokes, callStack, data, context, async, user>>

\* callbacks.mouseup: data.memento.save(ev)
MouseUp(ev) == SaveLive(ev)

\* memento.save(): data.memento.save()
Save == SaveLive(NoEvent)

\* undo(): memento.undo and Ctrl+Z
Undo ==
  /\ lastOp' = "undo"
  /\ IF CanUndo(stpos)
     THEN /\ Len(pending) < MaxPending
          /\ stpos' = stpos - 1
          /\ pending' = restore(pending, stack[stpos' + 1].image, stpos' + 1)
          /\ burst' = (burst \/ pending = <<>>)
          /\ \/ pair' = StartPair("undo")
             \/ /\ pair.phase = 1 /\ pair.first = "redo"
                /\ pair' = [pair EXCEPT !.phase = 2]
     ELSE /\ pair' = NoPair
          /\ UNCHANGED <<stpos, pending, burst>>
  /\ UNCHANGED <<stack, canvas, strokes, callStack, data, context, async, user, sinceReset>>

\* redo(): memento.redo, Ctrl+Y and Ctrl+Shift+Z
Redo ==
  /\ lastOp' = "redo"
  /\ IF CanRedo(stpos, stack)
     THEN /\ Len(pending) < MaxPending
          /\ stpos' = stpos + 1
          /\ pending' = restore(pending, stack[stpos' + 1].image, stpos' + 1)
          /\ burst' = (burst \/ pending = <<>>)
          /\ \/ pair' = StartPair("redo")
             \/ /\ pair.phase = 1 /\ pair.first = "undo"
                /\ pair' = [pair EXCEPT !.phase = 2]
     ELSE /\ pair' = NoPair
          /\ UNCHANGED <<stpos, pending, burst>>
  /\ UNCHANGED <<stack, canvas, strokes, callStack, data, context, async, user, sinceReset>>

\* The reset() that the clear and destroy callbacks run, on the live state bm, st, cs.
ResetTo(bm, st, cs) ==
  LET r == reset(bm, st, cs) IN
  /\ stack' = r.stack
  /\ stpos' = r.stpos
  /\ pending' = DetachEntries(pending)
  /\ sinceReset' = TRUE
  /\ pair' = NoPair
  /\ burst' = FALSE
  /\ UNCHANGED <<data, context, async, user>>

\* The clear event: the host widget clears the canvas (jSketch.clear) and its
\* strokes, then callbacks.clear runs data.memento.reset().
Clear ==
  /\ Len(callStack) < MaxLog
  /\ canvas' = {}
  /\ strokes' = <<>>
  /\ callStack' = clear(Sketch).callStack
  /\ ResetTo(canvas', strokes', callStack')
  /\ lastOp' = "clear"

\* callbacks.destroy: data.memento.destroy()
Destroy ==
  /\ ResetTo(canvas, strokes, callStack)
  /\ lastOp' = "destroy"
  /\ UNCHANGED <<canvas, strokes, callStack>>

\* restore(): the current state
RestoreCurrent ==
  /\ Len(pending) < MaxPending
  /\ pending' = restore(pending, stack[stpos + 1].image, stpos + 1)
  /\ lastOp' = "restore"
  /\ pair' = NoPair
  /\ burst' = (burst \/ pending = <<>>)
  /\ UNCHANGED <<stack, stpos, canvas, strokes, callStack, data, context, async, user, sinceReset>>

\* memento.restore(state) with the state object the caller holds
RestoreState ==
  /\ user # <<>>
  /\ Len(pending) < MaxPending
  /\ pending' = restore(pending, user[1].image, 0)
  /\ lastOp' = IF lastOp = "state" THEN "restoreFresh" ELSE "restoreState"
  /\ pair' = NoPair
  /\ burst' = FALSE
  /\ UNCHANGED <<stack, stpos, canvas, strokes, callStack, data, context, async, user, sinceReset>>

\* memento.state(): the caller keeps the returned object
GetState ==
  /\ user' = <<state(stack, stpos)>>
  /\ pending' = IF user = <<>> THEN pending ELSE DetachUser(pending)
  /\ lastOp' = "state"
  /\ pair' = NoPair
  /\ burst' = FALSE
  /\ UNCHANGED <<stack, stpos, canvas, strokes, callStack, data, context, async, sinceReset>>

\* The caller builds a state of the documented shape { image, strokes }.
MakeState(bm, st) ==
  /\ user' = <<[image |-> toDataURL(bm), strokes |-> st]>>
  /\ pending' = IF user = <<>> THEN pending ELSE DetachUser(pending)
  /\ lastOp' = "makeState"
  /\ pair' = NoPair
  /\ burst' = FALSE
  /\ UNCHANGED <<stack, stpos, canvas, strokes, callStack, data, context, async, sinceReset>>

\* The caller changes the state object it holds.
MutateState(s) ==
  /\ user # <<>>
  /\ Len(user[1].strokes) < MaxStrokes
  /\ user' = <<[user[1] EXCEPT !.strokes = Append(@, s)]>>
  /\ lastOp' = "mutateState"
  /\ pair' = NoPair
  /\ burst' = FALSE
  /\ UNCHANGED <<stack, stpos, pending, canvas, strokes, callStack, data, context, async, sinceReset>>

\* snapshot.onload of the i-th requested image: draw(this, state)
Load(i) ==
  /\ i \in 1..Len(pending)
  /\ LET ld == pending[i]
         r  == draw(ld.snapshot, Deref(ld), callStack)
     IN /\ r.raised => Len(callStack) < MaxLog
        /\ canvas' = r.canvas
        /\ strokes' = r.strokes
        /\ callStack' = r.callStack
        /\ lastOp' = IF r.raised THEN "loadRaised"
                     ELSE IF lastOp = "restoreFresh" /\ i = Len(pending) THEN "loadFresh"
                     ELSE "load"
  /\ pending' = [j \in 1..(Len(pending) - 1) |-> IF j < i THEN pending[j] ELSE pending[j + 1]]
  /\ pair' = IF pair.phase = 2 /\ i = 1 THEN pair ELSE NoPair
  /\ burst' = burst
  /\ UNCHANGED <<stack, stpos, data, context, async, user, sinceReset>>

\* The history operations: drawing, save, undo, redo, reset, restore().
Next ==
  \/ \E p \in Pixels : Paint(p)
  \/ \E s \in Pixels : HostStroke(s)
  \/ \E ev \in Events : MouseUp(ev)
  \/ Save
  \/ Undo
  \/ Redo
  \/ Clear
  \/ Destroy
  \/ RestoreCurrent
  \/ \E i \in 1..MaxPending : Load(i)

Spec == Init /\ [][Next]_vars

\* The state()/restore(state) interface, with pictures in the call log.
\* One extra entry and one restore at a time keep this scenario small.
StateNext ==
  \/ DrawImage
  \/ ImageLoaded
  \/ ImageError
  \/ Len(stack) < 2 /\ Save
  \/ GetState
  \/ \E bm \in Bitmaps : MakeState(bm, <<>>)
  \/ \E s \in Pixels : MutateState(s)
  \/ pending = <<>> /\ RestoreState
  \/ \E i \in 1..MaxPending : Load(i)

StateSpec == Init /\ [][StateNext]_vars

\* ---- jSketch style operations ----
Opt(S) == {<<>>} \cup {<<v>> : v \in S}

\* The options object of lineStyle(color, thickness, capStyle): a missing
\* argument is an undefined value, which saveGraphics skips like a missing key.
LineOptions(color, thickness, capStyle) ==
  LET keys == (IF color = <<>> THEN {} ELSE {"strokeStyle"})
              \cup (IF thickness = <<>> THEN {} ELSE {"lineWidth"})
              \cup (IF capStyle = <<>> THEN {} ELSE {"lineCap"})
  IN [p \in keys |-> IF p = "strokeStyle" THEN color[1]
                     ELSE IF p = "lineWidth" THEN thickness[1]
                     ELSE capStyle[1]]

Colors == {"#F00", "#00F"}

Apply(sk) ==
  /\ data' = sk.data
  /\ context' = sk.context
  /\ callStack' = sk.callStack
  /\ UNCHANGED <<stack, stpos, pending, canvas, strokes, async, user, lastOp, pair, burst, sinceReset>>

LogHasRoom == Len(callStack) < 2 * Len(StyleProps) + MaxStyleCalls

SetDefaults == LogHasRoom /\ Apply(setDefaults(Sketch))
LineStyle(color, thickness, capStyle) ==
  LogHasRoom /\ Apply(lineStyle(Sketch, LineOptions(color, thickness, capStyle)))
BeginFill(color) == LogHasRoom /\ Apply(beginFill(Sketch, color))
EndFill          == Apply(endFill(Sketch))
BeginPath        == LogHasRoom /\ Apply(beginPath(Sketch))
ClosePath        == LogHasRoom /\ Apply(closePath(Sketch))
Background(color) == LogHasRoom /\ Apply(background(Sketch, color))

SketchInit == \E options \in SketchOptions : InitWith(options)

SketchNext ==
  \/ SetDefaults
  \/ \E color \in Opt(Colors), thickness \in Opt({0, 3}), capStyle \in Opt({"butt"}) :
       LineStyle(color, thickness, capStyle)
  \/ \E color \in Colors : BeginFill(color)
  \/ EndFill
  \/ BeginPath
  \/ ClosePath
  \/ \E color \in Colors : Background(color)

SketchSpec == SketchInit /\ [][SketchNext]_vars


\* ============================== claims ==============================

LiveState == Snapshot(canvas, strokes, callStack)
MementoOps == {"save", "touch", "undo", "redo", "restore", "load"}

\* C1: after any MementoCanvas operation, once no snapshot load is pending,
\* the live bitmap, strokes and call stack equal the image, strokes and
\* callStack of the entry at the current position.
LockStep ==
  (lastOp \in MementoOps /\ pending = <<>>) => LiveState = stack[stpos + 1]

\* C2: a save with ev.identifier > 0 leaves the history length and stpos alone
\* and changes only the strokes of the current entry, which become the live
\* strokes; every other save appends one entry.
TouchSaveOnlyStrokes ==
  [][ /\ \A ev \in Events : MouseUp(ev) =>
           IF ev.identifier > 0
           THEN /\ Len(stack') = Len(stack)
                /\ stpos' = stpos
                /\ stack' = [stack EXCEPT ![stpos + 1].strokes = strokes]
                /\ UNCHANGED <<pending, canvas, strokes, callStack>>
           ELSE Len(stack') = Len(stack) + 1
      /\ Save => Len(stack') = Len(stack) + 1 ]_vars

TouchSaveSeen ==
  /\ lastOp = "touch"
  /\ stack[stpos + 1].strokes = strokes
  /\ stack[stpos + 1].image # toDataURL(canvas)

\* C3: right after a save that is not a secondary touch, the current entry is
\* the one this save created, it holds the live state, and redo is a no-op.
SaveMakesCurrent ==
  lastOp = "save" =>
    /\ stack[stpos + 1] = LiveState
    /\ stpos = Len(stack) - 1

\* C4: undo with stpos > 0 decrements stpos by one and requests a restore of
\* the entry at the new position; with stpos = 0 it changes nothing; it never
\* changes the history.
UndoStep ==
  [][ Undo =>
        IF stpos > 0
        THEN /\ stpos' = stpos - 1
             /\ pending' = Append(pending, [snapshot |-> stack[stpos].image,
                                            ref |-> stpos, obj |-> <<>>])
             /\ UNCHANGED <<stack, canvas, strokes, callStack>>
        ELSE UNCHANGED <<stpos, stack, pending, canvas, strokes, callStack>> ]_vars

UndoSeen ==
  /\ lastOp = "undo"
  /\ stpos = 0
  /\ Len(stack) > 1
  /\ pending # <<>>
  /\ pending[Len(pending)].ref = 1

\* C5: redo with stpos < stack.length - 1 increments stpos by one and requests
\* a restore of the entry at the new position; at the last index it changes
\* nothing; it never changes the history.
RedoStep ==
  [][ Redo =>
        IF stpos < Len(stack) - 1
        THEN /\ stpos' = stpos + 1
             /\ pending' = Append(pending, [snapshot |-> stack[stpos + 2].image,
                                            ref |-> stpos + 2, obj |-> <<>>])
             /\ UNCHANGED <<stack, canvas, strokes, callStack>>
        ELSE UNCHANGED <<stpos, stack, pending, canvas, strokes, callStack>> ]_vars

RedoSeen ==
  /\ lastOp = "redo"
  /\ stpos = Len(stack) - 1
  /\ pending # <<>>
  /\ pending[Len(pending)].ref = Len(stack)

\* C6: undo then redo, or redo then undo, brings stpos back, leaves the
\* history as it was and, once the pending loads have fired in request order,
\* leaves the live strokes and call stack equal to those of the entry that
\* was current before the pair.
UndoRedoInverse ==
  pair.phase = 2 =>
    /\ stpos = pair.pos
    /\ stack = pair.stack
    /\ pending = <<>> =>
         /\ strokes = pair.stack[pair.pos + 1].strokes
         /\ callStack = pair.stack[pair.pos + 1].callStack

UndoRedoSeen ==
  /\ pair.phase = 2
  /\ pair.first = "undo"
  /\ pending = <<>>
  /\ lastOp = "load"

StateRoundTrip ==
  [][ /\ GetState => user'[1] = stack[stpos + 1]
      /\ (\E s \in Pixels : MutateState(s)) => stack' = stack
      /\ lastOp' = "loadFresh" =>
           /\ strokes' = stack[stpos + 1].strokes
           /\ callStack' = stack[stpos + 1].callStack ]_vars

\* C9: for every state object of the documented shape { image, strokes },
\* with or without a callStack, the draw that follows the load of its image
\* raises no error and leaves the live strokes equal to state.strokes.
RestoreAcceptsDocumentedShape ==
  [][ \A i \in 1..MaxPending :
        (Load(i) /\ pending[i].ref <= 0) =>
          /\ lastOp' # "loadRaised"
          /\ strokes' = Deref(pending[i]).strokes ]_vars

\* The style state a renderer ends in after replaying the property entries
\* of a call log, starting from ctx.
RECURSIVE Replay(_, _)
Replay(log, ctx) ==
  IF log = <<>> THEN ctx
  ELSE LET c == Head(log) IN
       Replay(Tail(log),
              IF "property" \in DOMAIN c
              THEN IF c.property \in StyleSet
                   THEN [ctx EXCEPT ![c.property] = c.value]
                   ELSE ctx
              ELSE ctx)

\* C10: replaying the property entries of callStack on a fresh renderer gives
\* every style property the value the live context holds.
ReplayMatchesContext ==
  \A p \in StyleSet : Replay(callStack, FreshContext)[p] = context[p]


\* C11: when undo, redo and restore() are called while snapshot images are
\* still loading, then once every pending onload has fired, in whatever
\* order, the live strokes and call stack are those of the state requested
\* last, the entry at the final stpos.
LatestRestoreWins ==
  (burst /\ pending = <<>> /\ lastOp \in {"load", "loadRaised"}) =>
    /\ strokes = stack[stpos + 1].strokes
    /\ callStack = stack[stpos + 1].callStack

====
